---- MODULE Spec2Model ----
(***************************************************************************)
(* A model of bot_helper.py: the Record / AddressBook data model, the      *)
(* upcoming-birthdays query and the interactive command loop built on      *)
(* them.                                                                   *)
(*                                                                         *)
(* Python strings are modelled as sequences of characters.  A character    *)
(* is a one-letter string; a non-ASCII character is written by its code    *)
(* point ("U+0665").  A date is a record [year, month, day].               *)
(***************************************************************************)
EXTENDS Integers, Sequences, FiniteSets, TLC

VARIABLES
    today,   \* the date of datetime.today() / datetime.now()
    data,    \* AddressBook.data: the records in dict (insertion) order, keyed by name
    last,    \* the last operation: its arguments, the error it raised, its result
    pc,      \* main(): "start" | "running" | "closed" | "crashed"
    saved    \* the content of addressbook.pkl: NoFile or <<data>>

vars == <<today, data, last, pc, saved>>

(***************************************************************************)
(* Bounds of the model.                                                    *)
(***************************************************************************)
\* no operation is offered that would leave more than MaxPhones phones in the AddressBook
MaxPhones == 2

(***************************************************************************)
(* Characters and the str methods the program uses.                        *)
(***************************************************************************)
AsciiDigits == {"0", "1", "2", "3", "4", "5", "6", "7", "8", "9"}

\* Unicode decimal digits (category Nd) other than ASCII: ARABIC-INDIC DIGIT FIVE
OtherDecimals == {"U+0665"}

\* characters str.isdigit() accepts that are no decimal digits: SUPERSCRIPT TWO
OtherDigits == {"U+00B2"}

Whitespace == {" "}

\* str.isdigit(): non-empty and every character has the Unicode digit property
DigitChars == AsciiDigits \cup OtherDecimals \cup OtherDigits

isdigit(s) == Len(s) > 0 /\ \A i \in 1..Len(s) : s[i] \in DigitChars

\* the regular expression \d on a str pattern: a Unicode decimal digit
DecimalChars == AsciiDigits \cup OtherDecimals

re_d(c) == c \in DecimalChars

\* the value of one decimal digit, as int() reads it
DigitVal(c) ==
    CASE c = "0" -> 0 [] c = "1" -> 1 [] c = "2" -> 2 [] c = "3" -> 3
      [] c = "4" -> 4 [] c = "5" -> 5 [] c = "6" -> 6 [] c = "7" -> 7
      [] c = "8" -> 8 [] c = "9" -> 9 [] c = "U+0665" -> 5

RECURSIVE int(_)
\* int(s) of a string of decimal digits
int(s) == IF Len(s) = 0 THEN 0 ELSE 10 * int(SubSeq(s, 1, Len(s) - 1)) + DigitVal(s[Len(s)])

RECURSIVE lstrip(_)
lstrip(s) == IF Len(s) > 0 /\ s[1] \in Whitespace THEN lstrip(Tail(s)) ELSE s

RECURSIVE rstrip(_)
rstrip(s) == IF Len(s) > 0 /\ s[Len(s)] \in Whitespace THEN rstrip(SubSeq(s, 1, Len(s) - 1)) ELSE s

\* str.strip()
strip(s) == rstrip(lstrip(s))

\* str.lower() on the letters the inputs use
LowerChar(c) ==
    CASE c = "A" -> "a" [] c = "B" -> "b" [] c = "C" -> "c" [] c = "D" -> "d"
      [] c = "E" -> "e" [] c = "I" -> "i" [] c = "T" -> "t" [] c = "X" -> "x"
      [] OTHER -> c

lower(s) == [i \in 1..Len(s) |-> LowerChar(s[i])]

RECURSIVE split(_)
\* str.split(): the maximal runs of non-whitespace characters
split(s) ==
    LET t == lstrip(s)
        n == IF \E i \in 1..Len(t) : t[i] \in Whitespace
             THEN (CHOOSE i \in 1..Len(t) : t[i] \in Whitespace /\ \A j \in 1..(i - 1) : t[j] \notin Whitespace) - 1
             ELSE Len(t)
    IN  IF Len(t) = 0 THEN <<>> ELSE <<SubSeq(t, 1, n)>> \o split(SubSeq(t, n + 1, Len(t)))

(***************************************************************************)
(* datetime: the proleptic Gregorian calendar.                             *)
(***************************************************************************)
Date(y, m, d) == [year |-> y, month |-> m, day |-> d]

IsLeap(y) == y % 4 = 0 /\ (y % 100 # 0 \/ y % 400 = 0)

DaysInMonth(y, m) ==
    IF m = 2 THEN (IF IsLeap(y) THEN 29 ELSE 28)
    ELSE IF m \in {4, 6, 9, 11} THEN 30 ELSE 31

\* what the datetime constructor (and replace) accepts; anything else is a ValueError
ValidDate(y, m, d) == y \in 1..9999 /\ m \in 1..12 /\ d \in 1..DaysInMonth(y, m)

RECURSIVE DaysBeforeMonth(_, _)
DaysBeforeMonth(y, m) == IF m = 1 THEN 0 ELSE DaysBeforeMonth(y, m - 1) + DaysInMonth(y, m - 1)

\* date.toordinal(): 1 for 0001-01-01
toordinal(dt) ==
    LET y == dt.year - 1
    IN  y * 365 + (y \div 4) - (y \div 100) + (y \div 400) + DaysBeforeMonth(dt.year, dt.month) + dt.day

\* date.weekday(): Monday is 0, Saturday 5, Sunday 6
weekday(dt) == (toordinal(dt) + 6) % 7

\* the ordering of dates
DateLess(a, b) == toordinal(a) < toordinal(b)

DateLeq(a, b) == toordinal(a) <= toordinal(b)

NextDay(dt) ==
    IF dt.day < DaysInMonth(dt.year, dt.month) THEN Date(dt.year, dt.month, dt.day + 1)
    ELSE IF dt.month < 12 THEN Date(dt.year, dt.month + 1, 1)
    ELSE Date(dt.year + 1, 1, 1)

RECURSIVE AddDays(_, _)
\* dt + timedelta(days=k), k >= 0
AddDays(dt, k) == IF k = 0 THEN dt ELSE AddDays(NextDay(dt), k - 1)

\* zero-padded decimal of n in w characters
Digit(n) == CASE n = 0 -> "0" [] n = 1 -> "1" [] n = 2 -> "2" [] n = 3 -> "3" [] n = 4 -> "4"
              [] n = 5 -> "5" [] n = 6 -> "6" [] n = 7 -> "7" [] n = 8 -> "8" [] n = 9 -> "9"

RECURSIVE Pad(_, _)
Pad(n, w) == IF w = 0 THEN <<>> ELSE Pad(n \div 10, w - 1) \o <<Digit(n % 10)>>

\* dt.strftime("%d.%m.%Y")
strftime(dt) == Pad(dt.day, 2) \o <<".">> \o Pad(dt.month, 2) \o <<".">> \o Pad(dt.year, 4)

\* re.match(r"^\d{2}\.\d{2}\.\d{4}$", value)
MatchesDatePattern(value) ==
    /\ Len(value) = 10
    /\ value[3] = "." /\ value[6] = "."
    /\ \A i \in {1, 2, 4, 5, 7, 8, 9, 10} : re_d(value[i])

\* the directive %d of strptime: 3[0-1]|[1-2]\d|0[1-9]  (one-digit forms cannot
\* match a two-character field followed by ".")
MatchesDay(s) ==
    \/ s[1] = "3" /\ s[2] \in {"0", "1"}
    \/ s[1] \in {"1", "2"} /\ re_d(s[2])
    \/ s[1] = "0" /\ s[2] \in AsciiDigits \ {"0"}

\* the directive %m of strptime: 1[0-2]|0[1-9]
MatchesMonth(s) ==
    \/ s[1] = "1" /\ s[2] \in {"0", "1", "2"}
    \/ s[1] = "0" /\ s[2] \in AsciiDigits \ {"0"}

\* datetime.strptime(value, "%d.%m.%Y") of a string that matches the date pattern:
\* ok = FALSE stands for the ValueError
strptime(value) ==
    LET dd == SubSeq(value, 1, 2)
        mm == SubSeq(value, 4, 5)
        yy == SubSeq(value, 7, 10)
    IN  IF MatchesDay(dd) /\ MatchesMonth(mm) /\ ValidDate(int(yy), int(mm), int(dd))
        THEN [ok |-> TRUE, date |-> Date(int(yy), int(mm), int(dd))]
        ELSE [ok |-> FALSE, date |-> Date(1, 1, 1)]

\* dt.replace(year=y): ok = FALSE stands for the ValueError "day is out of range for month"
replace_year(dt, y) ==
    IF ValidDate(y, dt.month, dt.day)
    THEN [ok |-> TRUE, date |-> Date(y, dt.month, dt.day)]
    ELSE [ok |-> FALSE, date |-> dt]

(***************************************************************************)
(* Exceptions.  class is the Python exception class a handler can catch,   *)
(* kind the error kind the message names.                                  *)
(***************************************************************************)
NoErr == [class |-> "", kind |-> ""]

Err(class, kind) == [class |-> class, kind |-> kind]

\* Python's None (no birthday); a stored birthday is a non-empty string
None == <<>>

(***************************************************************************)
(* The value types.                                                        *)
(***************************************************************************)
\* Name.__init__
Name(value) == strip(value)

\* Phone._validate_phone
validate_phone(phone) ==
    IF ~isdigit(phone) THEN Err("ValueError", "InvalidFormat")
    ELSE IF Len(phone) # 10 THEN Err("ValueError", "InvalidFormat")
    ELSE NoErr

\* Phone.__init__: validates, then stores the value as given
Phone(value) == [err |-> validate_phone(value), value |-> value]

\* BirthdayDateError without the check that the date is not in the future
BirthdayDateError_NoFutureCheck(dt, now) ==
    IF ~(1 <= dt.month /\ dt.month <= 12) THEN Err("ValueError", "InvalidDate")
    ELSE IF dt.year > now.year \/ dt.year <= 0 THEN Err("ValueError", "InvalidDate")
    ELSE IF dt.year >= 2025 THEN Err("ValueError", "InvalidDate")
    ELSE NoErr

\* the checks of Birthday.__init__ on the parsed date, in the order of the code;
\* every ValueError raised inside the try block is raised again as "Invalid date"
BirthdayDateError(dt, now) ==
    IF ~(1 <= dt.month /\ dt.month <= 12) THEN Err("ValueError", "InvalidDate")
    ELSE IF dt.year > now.year \/ dt.year <= 0 THEN Err("ValueError", "InvalidDate")
    ELSE IF dt.year >= 2025 THEN Err("ValueError", "InvalidDate")
    ELSE IF DateLess(now, dt) THEN Err("ValueError", "InvalidDate")
    ELSE NoErr

\* Birthday.__init__ at the time now.  datetime.now() carries the time of day and
\* the parsed value is a midnight, so date_object > now exactly when its date is
\* after now's date.
Birthday(value, now) ==
    IF ~MatchesDatePattern(value) THEN [err |-> Err("ValueError", "InvalidFormat"), value |-> None]
    ELSE LET p == strptime(value)
         IN  IF ~p.ok THEN [err |-> Err("ValueError", "InvalidDate"), value |-> None]
             ELSE IF BirthdayDateError(p.date, now) # NoErr
             THEN [err |-> BirthdayDateError(p.date, now), value |-> None]
             ELSE [err |-> NoErr, value |-> value]

(***************************************************************************)
(* Record.  Every method returns [err, rec]: the exception it raised (or   *)
(* NoErr) and the record as the call left it.                              *)
(***************************************************************************)
\* Record.__init__
Record(name) == [name |-> Name(name), phones |-> <<>>, birthday |-> None]

\* the index of the first phone equal to value, 0 when there is none
FirstIndex(phones, value) ==
    IF \E i \in 1..Len(phones) : phones[i] = value
    THEN CHOOSE i \in 1..Len(phones) : phones[i] = value /\ \A j \in 1..(i - 1) : phones[j] # value
    ELSE 0

\* Record.add_phone
add_phone(rec, phone) ==
    LET p == Phone(phone)
    IN  IF p.err # NoErr THEN [err |-> p.err, rec |-> rec]
        ELSE [err |-> NoErr, rec |-> [rec EXCEPT !.phones = Append(@, p.value)]]

\* Record.remove_phone
remove_phone(rec, phone) ==
    LET i == FirstIndex(rec.phones, phone)
    IN  IF i # 0
        THEN [err |-> NoErr,
              rec |-> [rec EXCEPT !.phones = SubSeq(@, 1, i - 1) \o SubSeq(@, i + 1, Len(@))]]
        ELSE [err |-> Err("ValueError", "NotFound"), rec |-> rec]

\* edit_phone that stores the new value before it validates it
edit_phone_StoreFirst(rec, old_phone, new_phone) ==
    LET i == FirstIndex(rec.phones, old_phone)
        stored == [rec EXCEPT !.phones[i] = new_phone]
    IN  IF i # 0
        THEN IF old_phone = new_phone THEN [err |-> Err("ValueError", "InvalidArgument"), rec |-> stored]
             ELSE IF ~isdigit(new_phone) THEN [err |-> Err("ValueError", "InvalidFormat"), rec |-> stored]
             ELSE IF Len(new_phone) # 10 THEN [err |-> Err("ValueError", "InvalidFormat"), rec |-> stored]
             ELSE [err |-> NoErr, rec |-> stored]
        ELSE [err |-> Err("ValueError", "NotFound"), rec |-> rec]

\* edit_phone without the check that the new value differs from the old one
edit_phone_NoSameCheck(rec, old_phone, new_phone) ==
    LET i == FirstIndex(rec.phones, old_phone)
    IN  IF i # 0
        THEN IF ~isdigit(new_phone) THEN [err |-> Err("ValueError", "InvalidFormat"), rec |-> rec]
             ELSE IF Len(new_phone) # 10 THEN [err |-> Err("ValueError", "InvalidFormat"), rec |-> rec]
             ELSE [err |-> NoErr, rec |-> [rec EXCEPT !.phones[i] = new_phone]]
        ELSE [err |-> Err("ValueError", "NotFound"), rec |-> rec]

\* Record.edit_phone
edit_phone(rec, old_phone, new_phone) ==
    LET i == FirstIndex(rec.phones, old_phone)
    IN  IF i # 0
        THEN IF old_phone = new_phone THEN [err |-> Err("ValueError", "InvalidArgument"), rec |-> rec]
             ELSE IF ~isdigit(new_phone) THEN [err |-> Err("ValueError", "InvalidFormat"), rec |-> rec]
             ELSE IF Len(new_phone) # 10 THEN [err |-> Err("ValueError", "InvalidFormat"), rec |-> rec]
             ELSE [err |-> NoErr, rec |-> [rec EXCEPT !.phones[i] = new_phone]]
        ELSE [err |-> Err("ValueError", "NotFound"), rec |-> rec]

\* Record.add_birthday at the time now
add_birthday(rec, birthday, now) ==
    LET b == Birthday(birthday, now)
    IN  IF b.err # NoErr THEN [err |-> b.err, rec |-> rec]
        ELSE [err |-> NoErr, rec |-> [rec EXCEPT !.birthday = b.value]]

(***************************************************************************)
(* AddressBook.  book is the dict's items in insertion order; the key of   *)
(* a record is its name.                                                   *)
(***************************************************************************)
\* the position of key in the dict, 0 when it is absent
KeyIndex(book, key) ==
    IF \E i \in 1..Len(book) : book[i].name = key
    THEN CHOOSE i \in 1..Len(book) : book[i].name = key
    ELSE 0

\* add_record that keeps the phones of the record it replaces
add_record_KeepPhones(book, record) ==
    IF KeyIndex(book, record.name) # 0
    THEN [book EXCEPT ![KeyIndex(book, record.name)] = [record EXCEPT !.phones = book[KeyIndex(book, record.name)].phones \o @]]
    ELSE Append(book, record)

\* AddressBook.add_record: self.data[record.name.value] = record
add_record(book, record) ==
    IF KeyIndex(book, record.name) # 0
    THEN [book EXCEPT ![KeyIndex(book, record.name)] = record]
    ELSE Append(book, record)

\* AddressBook.find: <<record>>, or <<>> for None
find(book, name) ==
    IF KeyIndex(book, name) # 0 THEN <<book[KeyIndex(book, name)]>> ELSE <<>>

\* AddressBook.delete
delete(book, name) ==
    LET i == KeyIndex(book, name)
    IN  IF i # 0
        THEN [err |-> NoErr, book |-> SubSeq(book, 1, i - 1) \o SubSeq(book, i + 1, Len(book))]
        ELSE [err |-> Err("KeyError", "NotFound"), book |-> book]

\* today + timedelta(days=7)
next_week(now) == AddDays(now, 7)

\* WeekendShift that moves a Saturday by one day only
WeekendShift_SaturdayByOne(dt) ==
    IF weekday(dt) = 5 THEN AddDays(dt, 1)
    ELSE IF weekday(dt) = 6 THEN AddDays(dt, 1)
    ELSE dt

\* the weekend adjustment of get_upcoming_birthdays
WeekendShift(dt) ==
    IF weekday(dt) = 5 THEN AddDays(dt, 2)
    ELSE IF weekday(dt) = 6 THEN AddDays(dt, 1)
    ELSE dt

\* the body of the loop of get_upcoming_birthdays for one record:
\* "skip" (nothing appended), "entry" (one appended) or "raise" (ValueError of replace)
upcoming_entry(rec, now) ==
    IF rec.birthday = None THEN [kind |-> "skip", entry |-> <<>>]
    ELSE LET birthday == strptime(rec.birthday).date
             this == replace_year(birthday, now.year)
             next == replace_year(birthday, now.year + 1)
         IN  IF ~this.ok THEN [kind |-> "raise", entry |-> <<>>]
             ELSE IF DateLess(this.date, now) /\ ~next.ok THEN [kind |-> "raise", entry |-> <<>>]
             ELSE LET occ == IF DateLess(this.date, now) THEN next.date ELSE this.date
                  IN  IF DateLeq(now, occ) /\ DateLeq(occ, next_week(now))
                      THEN [kind |-> "entry",
                            entry |-> [name |-> rec.name, birthday |-> strftime(WeekendShift(occ))]]
                      ELSE [kind |-> "skip", entry |-> <<>>]

RECURSIVE upcoming_list(_, _)
\* the entries appended over the records of book, in order
upcoming_list(book, now) ==
    IF Len(book) = 0 THEN <<>>
    ELSE LET e == upcoming_entry(book[1], now)
         IN  (IF e.kind = "entry" THEN <<e.entry>> ELSE <<>>) \o upcoming_list(Tail(book), now)

\* AddressBook.get_upcoming_birthdays on the date now: [err, ret]
get_upcoming_birthdays(book, now) ==
    IF \E i \in 1..Len(book) : upcoming_entry(book[i], now).kind = "raise"
    THEN [err |-> Err("ValueError", "InvalidDate"), ret |-> <<>>]
    ELSE [err |-> NoErr, ret |-> upcoming_list(book, now)]

(***************************************************************************)
(* Inputs.                                                                 *)
(***************************************************************************)
NameA == <<"A">>

NameB == <<"B">>

\* a name given with surrounding blanks: Name strips it to "A"
NamePadded == <<" ", "A", " ">>

\* a name no record has
NameC == <<"C">>

P1 == <<"0", "1", "2", "3", "4", "5", "6", "7", "8", "9">>

P2 == <<"9", "8", "7", "6", "5", "4", "3", "2", "1", "0">>

\* ten characters that are digits to str.isdigit() and not all ASCII
PUnicode == <<"U+0665", "U+00B2", "2", "3", "4", "5", "6", "7", "8", "9">>

PShort == <<"1", "2", "3", "4", "5", "6", "7", "8", "9">>

PLong == <<"1", "2", "3", "4", "5", "6", "7", "8", "9", "0", "1">>

PAlpha == <<"1", "2", "3", "4", "5", "a", "7", "8", "9", "0">>

PEmpty == <<>>

PhoneInputs == {P1, P2, PUnicode, PShort, PLong, PAlpha, PEmpty}

\* the text DD.MM.YYYY of three numbers (no validation)
Text(d, m, y) == Pad(d, 2) \o <<".">> \o Pad(m, 2) \o <<".">> \o Pad(y, 4)

B_29_02_2020 == Text(29, 2, 2020)

B_29_02_2024 == Text(29, 2, 2024)

B_29_02_2001 == Text(29, 2, 2001)

\* 10.11.2005 with the last digit of the year an ARABIC-INDIC DIGIT FIVE
B_UnicodeYear == <<"1", "0", ".", "1", "1", ".", "2", "0", "0", "U+0665">>

\* 05.01.2000 with the first digit of the day an ARABIC-INDIC DIGIT FIVE
B_UnicodeDay == <<"U+0665", "1", ".", "0", "1", ".", "2", "0", "0", "0">>

B_NoPadding == <<"1", ".", "1", ".", "2", "0", "0", "0">>

B_Dashes == <<"0", "1", "-", "0", "1", "-", "2", "0", "0", "0">>

\* the dates the clock takes, in order
Todays ==
    << Date(2024, 3, 1), Date(2026, 11, 3), Date(2026, 11, 4), Date(2026, 11, 5),
       Date(2026, 12, 28), Date(2028, 2, 25) >>

\* birthdays near the dates of Todays, and the boundary cases of Birthday
BirthdayInputs ==
    { B_29_02_2020, B_29_02_2024, B_29_02_2001, B_UnicodeYear, B_UnicodeDay, B_NoPadding, B_Dashes,
      Text(7, 11, 1990), Text(8, 11, 2000), Text(11, 11, 1985), Text(2, 1, 1999), Text(5, 11, 2024),
      Text(1, 1, 2025), Text(31, 4, 2000), Text(1, 13, 2000), Text(0, 1, 2000), Text(1, 1, 0) }

(***************************************************************************)
(* The state and the operations of the library.                            *)
(***************************************************************************)
NoFile == <<>>

Op(op, name, a, b, err, ret) == [op |-> op, name |-> name, a |-> a, b |-> b, err |-> err, ret |-> ret]

RECURSIVE TotalPhones(_)
\* the number of phones the records of book hold
TotalPhones(book) == IF Len(book) = 0 THEN 0 ELSE Len(book[1].phones) + TotalPhones(Tail(book))

Init ==
    /\ today = Todays[1]
    /\ data = <<>>
    /\ last = Op("init", <<>>, <<>>, <<>>, NoErr, <<>>)
    /\ pc = "start"
    /\ saved = NoFile

\* add_record; ret is len(book) before the call.
\* a caller builds a record (Record, then add_phone and add_birthday calls that
\* succeed or leave it as it was) and hands it to add_record
AddRecord(names, phones, birthdays) ==
    \E name \in names, p \in phones \cup {<<>>}, b \in birthdays \cup {<<>>} :
        LET r0 == Record(name)
            r1 == IF p = <<>> THEN r0 ELSE add_phone(r0, p).rec
            r2 == IF b = <<>> THEN r1 ELSE add_birthday(r1, b, today).rec
        IN  /\ TotalPhones(add_record(data, r2)) <= MaxPhones
            /\ data' = add_record(data, r2)
            /\ last' = Op("add_record", r2.name, <<r2>>, <<>>, NoErr, <<Len(data)>>)
            /\ UNCHANGED <<today, pc, saved>>

Delete(names) ==
    \E name \in names :
        LET r == delete(data, name)
        IN  /\ data' = r.book
            /\ last' = Op("delete", name, <<>>, <<>>, r.err, <<>>)
            /\ UNCHANGED <<today, pc, saved>>

\* a method of the record find(name) returned
AddPhone(phones) ==
    \E i \in 1..Len(data), phone \in phones :
        LET r == add_phone(data[i], phone)
        IN  /\ TotalPhones([data EXCEPT ![i] = r.rec]) <= MaxPhones
            /\ data' = [data EXCEPT ![i] = r.rec]
            /\ last' = Op("add_phone", data[i].name, phone, <<>>, r.err, <<>>)
            /\ UNCHANGED <<today, pc, saved>>

RemovePhone(phones) ==
    \E i \in 1..Len(data), phone \in phones :
        LET r == remove_phone(data[i], phone)
        IN  /\ data' = [data EXCEPT ![i] = r.rec]
            /\ last' = Op("remove_phone", data[i].name, phone, <<>>, r.err, <<>>)
            /\ UNCHANGED <<today, pc, saved>>

\* edits is a set of pairs <<old_phone, new_phone>>
EditPhone(edits) ==
    \E i \in 1..Len(data), e \in edits :
        LET old_phone == e[1]
            new_phone == e[2]
            r == edit_phone(data[i], old_phone, new_phone)
        IN  /\ data' = [data EXCEPT ![i] = r.rec]
            /\ last' = Op("edit_phone", data[i].name, old_phone, new_phone, r.err, <<>>)
            /\ UNCHANGED <<today, pc, saved>>

AddBirthday(birthdays) ==
    \E i \in 1..Len(data), birthday \in birthdays :
        LET r == add_birthday(data[i], birthday, today)
        IN  /\ data' = [data EXCEPT ![i] = r.rec]
            /\ last' = Op("add_birthday", data[i].name, birthday, <<>>, r.err, <<>>)
            /\ UNCHANGED <<today, pc, saved>>

GetUpcomingBirthdays ==
    LET r == get_upcoming_birthdays(data, today)
    IN  /\ last' = Op("get_upcoming_birthdays", <<>>, <<>>, <<>>, r.err, r.ret)
        /\ UNCHANGED <<today, data, pc, saved>>

\* time passes: the clock never goes back
Tick ==
    \E i, j \in 1..Len(Todays) :
        /\ today = Todays[i]
        /\ i < j
        /\ today' = Todays[j]
        /\ last' = Op("tick", <<>>, <<>>, <<>>, NoErr, <<>>)
        /\ UNCHANGED <<data, pc, saved>>

\* the records and their phones
Next ==
    \/ AddRecord({NameA, NameB, NamePadded}, {P1, PAlpha}, {Text(7, 11, 1990)})
    \/ Delete({NameA, NameB, NameC})
    \/ AddPhone({P1, PUnicode, PShort, PLong, PAlpha, PEmpty})
    \/ RemovePhone({P1, PUnicode})
    \/ EditPhone({<<P1, PUnicode>>, <<PUnicode, P1>>, <<P1, P1>>, <<PUnicode, PUnicode>>,
                  <<PAlpha, PAlpha>>, <<P1, PShort>>, <<P1, PAlpha>>})
    \/ AddBirthday({Text(7, 11, 1990), B_29_02_2001})

Spec == Init /\ [][Next]_vars

\* the birthdays of the records and the clock
NextBirthdays ==
    \/ AddRecord({NameA, NameB}, {}, {})
    \/ Delete({NameA, NameC})
    \/ AddBirthday({ B_29_02_2020, B_UnicodeYear, B_29_02_2001, Text(7, 11, 1990), Text(8, 11, 2000),
                     Text(11, 11, 1985), Text(2, 1, 1999), Text(5, 11, 2024) })
    \/ GetUpcomingBirthdays
    \/ Tick

SpecBirthdays == Init /\ [][NextBirthdays]_vars

\* one record, every birthday text, the clock
NextBirthdayValue ==
    \/ AddRecord({NameA}, {}, {})
    \/ AddBirthday(BirthdayInputs)
    \/ Tick

SpecBirthdayValue == Init /\ [][NextBirthdayValue]_vars

(***************************************************************************)
(* The command handlers and main().  A handler returns [err, book]: the    *)
(* exception raised inside it (or NoErr) and the AddressBook as it left    *)
(* it.                                                                     *)
(***************************************************************************)
W_hello == <<"h", "e", "l", "l", "o">>

W_add == <<"a", "d", "d">>

W_change == <<"c", "h", "a", "n", "g", "e">>

W_all == <<"a", "l", "l">>

W_phone == <<"p", "h", "o", "n", "e">>

W_add_birthday == <<"a", "d", "d", "-", "b", "i", "r", "t", "h", "d", "a", "y">>

W_show_birthday == <<"s", "h", "o", "w", "-", "b", "i", "r", "t", "h", "d", "a", "y">>

W_birthdays == <<"b", "i", "r", "t", "h", "d", "a", "y", "s">>

W_close == <<"c", "l", "o", "s", "e">>

W_exit == <<"e", "x", "i", "t">>

\* EXIT in capitals
W_EXIT == <<"E", "X", "I", "T">>

\* no command
W_x == <<"x">>

\* the words of a line joined by single blanks
RECURSIVE Line(_)
Line(words) ==
    IF Len(words) = 0 THEN <<>>
    ELSE IF Len(words) = 1 THEN words[1]
    ELSE words[1] \o <<" ">> \o Line(Tail(words))

\* what the user types
Lines ==
    { Line(<<W_hello>>), <<" ">> \o Line(<<W_hello>>), Line(<<W_x>>), <<>>, <<" ", " ">>,
      Line(<<W_add, NameA, P1>>), Line(<<W_add, NameA, PAlpha>>), Line(<<W_add, NameA>>),
      Line(<<W_change, NameA, P1, P2>>), Line(<<W_change, NameA, P1, P1>>), Line(<<W_change, NameA, P1>>),
      Line(<<W_phone, NameA>>), Line(<<W_phone>>),
      Line(<<W_add_birthday, NameA, B_29_02_2020>>), Line(<<W_add_birthday, NameA, B_29_02_2001>>),
      Line(<<W_add_birthday, NameA>>),
      Line(<<W_show_birthday, NameA>>), Line(<<W_show_birthday>>),
      Line(<<W_birthdays>>), Line(<<W_all>>), Line(<<W_close>>), Line(<<W_EXIT>>) }

\* parse_input: ok = FALSE stands for the ValueError of unpacking an empty list
parse_input(user_input) ==
    LET parts == split(user_input)
    IN  IF Len(parts) = 0 THEN [ok |-> FALSE, cmd |-> <<>>, args |-> <<>>]
        ELSE [ok |-> TRUE, cmd |-> lower(strip(parts[1])), args |-> Tail(parts)]

\* input_error: the exceptions the decorator turns into a returned message
input_error(err) == err.class \in {"ValueError", "IndexError", "KeyError"}

\* book with the record under key replaced by rec (a method changed the object find returned)
Store(book, key, rec) == [book EXCEPT ![KeyIndex(book, key)] = rec]

\* add_contact, before the decorator
add_contact(args, book) ==
    IF Len(args) < 2 THEN [err |-> Err("ValueError", "MissingArgument"), book |-> book]
    ELSE LET name == args[1]
             phone == args[2]
             found == find(book, name)
             record == IF found = <<>> THEN Record(name) ELSE found[1]
             book1 == IF found = <<>> THEN add_record(book, record) ELSE book
         IN  IF Len(phone) > 0
             THEN LET r == add_phone(record, phone)
                  IN  [err |-> r.err, book |-> Store(book1, record.name, r.rec)]
             ELSE [err |-> NoErr, book |-> book1]

\* change_contact, before the decorator
change_contact(args, book) ==
    IF Len(args) # 3 THEN [err |-> Err("ValueError", "MissingArgument"), book |-> book]
    ELSE LET found == find(book, args[1])
         IN  IF found = <<>> THEN [err |-> Err("AttributeError", "NotFound"), book |-> book]
             ELSE LET r == edit_phone(found[1], args[2], args[3])
                  IN  [err |-> r.err, book |-> Store(book, found[1].name, r.rec)]

\* show_phone, before the decorator
show_phone(args, book) ==
    IF Len(args) = 0 THEN [err |-> Err("IndexError", "MissingArgument"), book |-> book]
    ELSE IF find(book, args[1]) = <<>> THEN [err |-> Err("AttributeError", "NotFound"), book |-> book]
    ELSE [err |-> NoErr, book |-> book]

\* the handler add_birthday (not the method of Record), before the decorator
add_birthday_handler(args, book, now) ==
    IF Len(args) < 2 THEN [err |-> Err("ValueError", "MissingArgument"), book |-> book]
    ELSE IF Len(args) # 2 THEN [err |-> Err("ValueError", "MissingArgument"), book |-> book]
    ELSE LET found == find(book, args[1])
         IN  IF found = <<>> THEN [err |-> Err("AttributeError", "NotFound"), book |-> book]
             ELSE LET r == add_birthday(found[1], args[2], now)
                  IN  [err |-> r.err, book |-> Store(book, found[1].name, r.rec)]

\* show_birthday, before the decorator
show_birthday(args, book) ==
    IF Len(args) = 0 THEN [err |-> Err("IndexError", "MissingArgument"), book |-> book]
    ELSE [err |-> NoErr, book |-> book]

\* birthdays, before the decorator; show_upcoming_birthdays parses back what
\* get_upcoming_birthdays formatted
birthdays(book, now) ==
    LET r == get_upcoming_birthdays(book, now)
    IN  IF r.err # NoErr THEN [err |-> r.err, book |-> book]
        ELSE IF \E i \in 1..Len(r.ret) : ~(MatchesDatePattern(r.ret[i].birthday) /\ strptime(r.ret[i].birthday).ok)
        THEN [err |-> Err("ValueError", "InvalidDate"), book |-> book]
        ELSE [err |-> NoErr, book |-> book]

\* save_data
save_data(book) == <<book>>

\* load_data: the pickled AddressBook, or an empty one when there is no file
load_data(file) == IF file = NoFile THEN <<>> ELSE file[1]

\* how an iteration of the loop of main ends: "ok", "error" (the decorator
\* returned a message) or "crash" (the exception left main)
Outcome(err) == IF err = NoErr THEN "ok" ELSE IF input_error(err) THEN "error" ELSE "crash"

\* an iteration of the loop that calls a handler
Handle(p, r) ==
    /\ TotalPhones(r.book) <= MaxPhones
    /\ data' = r.book
    /\ pc' = IF Outcome(r.err) = "crash" THEN "crashed" ELSE "running"
    /\ last' = Op("command", p.cmd, p.args, <<>>, r.err, <<Outcome(r.err)>>)
    /\ UNCHANGED <<today, saved>>

\* an iteration of the loop that only prints
Say(p) ==
    /\ last' = Op("command", p.cmd, p.args, <<>>, NoErr, <<"ok">>)
    /\ UNCHANGED <<today, data, pc, saved>>

\* main() starts: load_data
Main ==
    /\ pc \in {"start", "closed", "crashed"}
    /\ pc' = "running"
    /\ data' = load_data(saved)
    /\ last' = Op("main", <<>>, <<>>, <<>>, NoErr, <<>>)
    /\ UNCHANGED <<today, saved>>

\* input that splits into nothing: parse_input raises in main, outside every handler
InputEmpty ==
    \E line \in Lines :
        /\ pc = "running"
        /\ ~parse_input(line).ok
        /\ pc' = "crashed"
        /\ last' = Op("command", <<>>, <<>>, <<>>, Err("ValueError", "MissingArgument"), <<"crash">>)
        /\ UNCHANGED <<today, data, saved>>

CmdClose ==
    \E line \in Lines :
        LET p == parse_input(line)
        IN  /\ pc = "running" /\ p.ok /\ p.cmd \in {W_close, W_exit}
            /\ saved' = save_data(data)
            /\ pc' = "closed"
            /\ last' = Op("command", p.cmd, p.args, <<>>, NoErr, <<"ok">>)
            /\ UNCHANGED <<today, data>>

CmdHello ==
    \E line \in Lines :
        LET p == parse_input(line)
        IN  pc = "running" /\ p.ok /\ p.cmd = W_hello /\ Say(p)

CmdAdd ==
    \E line \in Lines :
        LET p == parse_input(line)
        IN  pc = "running" /\ p.ok /\ p.cmd = W_add /\ Handle(p, add_contact(p.args, data))

CmdChange ==
    \E line \in Lines :
        LET p == parse_input(line)
        IN  pc = "running" /\ p.ok /\ p.cmd = W_change /\ Handle(p, change_contact(p.args, data))

CmdAll ==
    \E line \in Lines :
        LET p == parse_input(line)
        IN  pc = "running" /\ p.ok /\ p.cmd = W_all /\ Say(p)

CmdPhone ==
    \E line \in Lines :
        LET p == parse_input(line)
        IN  pc = "running" /\ p.ok /\ p.cmd = W_phone /\ Handle(p, show_phone(p.args, data))

CmdAddBirthday ==
    \E line \in Lines :
        LET p == parse_input(line)
        IN  pc = "running" /\ p.ok /\ p.cmd = W_add_birthday
            /\ Handle(p, add_birthday_handler(p.args, data, today))

CmdShowBirthday ==
    \E line \in Lines :
        LET p == parse_input(line)
        IN  pc = "running" /\ p.ok /\ p.cmd = W_show_birthday /\ Handle(p, show_birthday(p.args, data))

CmdBirthdays ==
    \E line \in Lines :
        LET p == parse_input(line)
        IN  pc = "running" /\ p.ok /\ p.cmd = W_birthdays /\ Handle(p, birthdays(data, today))

CmdInvalid ==
    \E line \in Lines :
        LET p == parse_input(line)
        IN  /\ pc = "running" /\ p.ok
            /\ p.cmd \notin {W_close, W_exit, W_hello, W_add, W_change, W_all, W_phone,
                             W_add_birthday, W_show_birthday, W_birthdays}
            /\ Say(p)

NextSession ==
    \/ Main
    \/ InputEmpty
    \/ CmdClose
    \/ CmdHello
    \/ CmdAdd
    \/ CmdChange
    \/ CmdAll
    \/ CmdPhone
    \/ CmdAddBirthday
    \/ CmdShowBirthday
    \/ CmdBirthdays
    \/ CmdInvalid

SpecSession == Init /\ [][NextSession]_vars

(***************************************************************************)
(* The claims.                                                             *)
(***************************************************************************)
\* the record stored under name (the caller knows there is one)
RecordOf(book, name) == find(book, name)[1]

\* the month and day of a stored birthday in the year y
OccurrenceIn(birthday, y) == Date(y, int(SubSeq(birthday, 4, 5)), int(SubSeq(birthday, 1, 2)))

\* the next occurrence on or after now: this year's month/day, or next year's
\* when this year's already passed
NextOccurrence(birthday, now) ==
    IF DateLess(OccurrenceIn(birthday, now.year), now)
    THEN OccurrenceIn(birthday, now.year + 1)
    ELSE OccurrenceIn(birthday, now.year)

\* occ lies in [now, now + days]
InWindow(occ, now, days) == toordinal(now) <= toordinal(occ) /\ toordinal(occ) <= toordinal(now) + days

\* the names get_upcoming_birthdays returned
Reported == {last.ret[j].name : j \in 1..Len(last.ret)}

\* C1: get_upcoming_birthdays reports a record if and only if it has a birthday
\* whose next occurrence on or after today lies in [today, today + 6 days]; an
\* occurrence 7 days after today is not reported, a record without a birthday never.
C1_WindowOfSixDays ==
    last.op = "get_upcoming_birthdays" =>
        \A i \in 1..Len(data) :
            data[i].name \in Reported <=>
                (data[i].birthday # None /\ InWindow(NextOccurrence(data[i].birthday, today), today, 6))

\* C2: every reported date is the occurrence plus 2 days when the occurrence is a
\* Saturday, plus 1 day when it is a Sunday, and the occurrence itself otherwise; it
\* is a Monday-to-Friday date; the call leaves the stored birthdays as they were.
C2_WeekendShift ==
    [][last'.op = "get_upcoming_birthdays" =>
        /\ data' = data
        /\ \A j \in 1..Len(last'.ret) :
              LET occ == NextOccurrence(RecordOf(data, last'.ret[j].name).birthday, today)
                  expected == AddDays(occ, CASE weekday(occ) = 5 -> 2 [] weekday(occ) = 6 -> 1 [] OTHER -> 0)
              IN  /\ last'.ret[j].birthday = Text(expected.day, expected.month, expected.year)
                  /\ weekday(expected) \in 0..4
     ]_vars

\* C2's case: one call reported a Saturday occurrence and a Sunday occurrence
C2_Witness ==
    /\ last.op = "get_upcoming_birthdays"
    /\ \E j, k \in 1..Len(last.ret) :
          /\ weekday(NextOccurrence(RecordOf(data, last.ret[j].name).birthday, today)) = 5
          /\ weekday(NextOccurrence(RecordOf(data, last.ret[k].name).birthday, today)) = 6

\* C3: get_upcoming_birthdays never raises, and returns the empty sequence when no
\* record has an occurrence in the window (taken here as wide as the code takes it).
C3_NeverRaises ==
    last.op = "get_upcoming_birthdays" =>
        /\ last.err = NoErr
        /\ (\A i \in 1..Len(data) :
                data[i].birthday = None \/ ~InWindow(NextOccurrence(data[i].birthday, today), today, 7))
           => last.ret = <<>>

\* C4: a failed add_phone, remove_phone, edit_phone, add_birthday or delete leaves
\* every record's phones and birthday, and the set of entries, as they were.
C4_AllOrNothing ==
    [][(/\ last'.op \in {"add_phone", "remove_phone", "edit_phone", "add_birthday", "delete"}
        /\ last'.err # NoErr)
       => data' = data]_vars

\* C4's case: edit_phone failed on the format of the new value, on a record that
\* holds two phones and a birthday
C4_Witness ==
    /\ last.op = "edit_phone"
    /\ last.err.kind = "InvalidFormat"
    /\ Len(RecordOf(data, last.name).phones) = 2
    /\ RecordOf(data, last.name).birthday # None

\* C5: a command that ends in a validation failure leaves the AddressBook as it was
\* before the command.
C5_FailedCommandKeepsBook ==
    [][(last'.op = "command" /\ last'.ret = <<"error">>) => data' = data]_vars

\* C6: every stored phone is a string of exactly 10 ASCII digits.
C6_TenAsciiDigits ==
    \A i \in 1..Len(data) : \A k \in 1..Len(data[i].phones) :
        /\ Len(data[i].phones[k]) = 10
        /\ \A c \in 1..Len(data[i].phones[k]) : data[i].phones[k][c] \in AsciiDigits

\* C7 as stated: edit_phone(old, new) with old = new always fails with InvalidArgument,
\* whether or not the value is in the record's phone list.
C7_AlwaysInvalidArgument ==
    (last.op = "edit_phone" /\ last.a = last.b) => last.err.kind = "InvalidArgument"

\* C7, amended: edit_phone(old, new) with old = new always fails and leaves the
\* phones as they were: with InvalidArgument when old is in the record's phone list
\* (whatever the value), with NotFound when it is not.
C7_SameOldNewFails ==
    [][(last'.op = "edit_phone" /\ last'.a = last'.b) =>
        /\ data' = data
        /\ last'.err = IF \E k \in 1..Len(RecordOf(data, last'.name).phones) :
                              RecordOf(data, last'.name).phones[k] = last'.a
                       THEN Err("ValueError", "InvalidArgument")
                       ELSE Err("ValueError", "NotFound")
     ]_vars

\* C7's case: old = new, in the list, and not 10 ASCII digits
C7_Witness ==
    /\ last.op = "edit_phone"
    /\ last.a = last.b
    /\ last.a = PUnicode
    /\ last.err.kind = "InvalidArgument"

\* the text has the form DD.MM.YYYY: two digits, a dot, two digits, a dot, four digits
HasDateForm(raw) ==
    /\ Len(raw) = 10
    /\ \A i \in 1..10 : IF i \in {3, 6} THEN raw[i] = "." ELSE raw[i] \in DecimalChars

\* the date the text names is a real calendar date
NamesRealDate(raw) ==
    LET d == int(SubSeq(raw, 1, 2))
        m == int(SubSeq(raw, 4, 5))
        y == int(SubSeq(raw, 7, 10))
    IN  m \in 1..12 /\ d >= 1 /\ d <= DaysInMonth(y, m)

YearOf(raw) == int(SubSeq(raw, 7, 10))

\* the date the text names is not after now
NotAfter(raw, now) ==
    LET d == int(SubSeq(raw, 1, 2))
        m == int(SubSeq(raw, 4, 5))
        y == int(SubSeq(raw, 7, 10))
    IN  \/ y < now.year
        \/ y = now.year /\ m < now.month
        \/ y = now.year /\ m = now.month /\ d <= now.day

C9_LastWriteWins ==
    [][last'.op = "add_record" =>
        LET r == last'.a[1]
        IN  /\ find(data', r.name) = <<r>>
            /\ \A i, j \in 1..Len(data') : data'[i].name = data'[j].name => i = j
            /\ Len(data') = IF \E i \in 1..Len(data) : data[i].name = r.name THEN Len(data) ELSE Len(data) + 1
            /\ \A i \in 1..Len(data) : data[i].name # r.name => find(data', data[i].name) = <<data[i]>>
     ]_vars

\* C9's case: a record without phones replaced an entry, beside another entry
C9_Witness ==
    /\ last.op = "add_record"
    /\ last.ret = <<Len(data)>>
    /\ Len(data) = 2
    /\ last.a[1].phones = <<>>
    /\ RecordOf(data, last.name) = last.a[1]

\* C10: a session ends only on close or exit, after the AddressBook has been saved;
\* no input mistake ends it.
C10_EndsOnlyOnClose ==
    pc \in {"closed", "crashed"} =>
        /\ last.op = "command"
        /\ last.name \in {W_close, W_exit}
        /\ saved = save_data(data)

====
